---- MODULE Spec2Model ----
(***************************************************************************)
(* Model of the sorting trainer: the step-queue generators and validateMove *)
(* of src/modules/algorithms.js, the GameEngine of                          *)
(* src/modules/game-engine.js, and the one place of src/main.js that writes *)
(* a GameEngine field (the Escape key handler).                             *)
(*                                                                          *)
(* JavaScript arrays are 0-based and are kept 0-based here: an array is a   *)
(* TLA+ sequence read through At(array, i) == array[i + 1].  A field that   *)
(* may be null holds Null (the empty sequence) or Some(v) (<<v>>).          *)
(***************************************************************************)
EXTENDS Integers, Sequences, FiniteSets, TLC

\* ------------------------------------------------------------------ bounds
\* Largest value drawn for an element (the program draws from 1..20).
MaxVal == 3
\* Longest input handed directly to a generator.
MaxLen == 3
\* Largest number of incorrect moves followed in one game.
MaxIncorrect == 1

\* ------------------------------------------------------- program constants
\* generateRandomNumbers(count = null, min = 1, max = 20): min.
MinVal == 1

Values == MinVal..MaxVal

\* ------------------------------------------------------------ JS plumbing
Null == <<>>
Some(v) == <<v>>
Get(opt) == opt[1]

At(array, i) == array[i + 1]
InRange(array, i) == i >= 0 /\ i < Len(array)

\* An exchange that copies array[i] to position j and leaves position i alone.
SwapAtCopies(array, i, j) ==
    [k \in 1..Len(array) |-> IF k = j + 1 THEN At(array, i) ELSE array[k]]

\* [array[i], array[j]] = [array[j], array[i]] with both indices in range.
SwapAt(array, i, j) ==
    [k \in 1..Len(array) |->
        IF k = i + 1 THEN At(array, j)
        ELSE IF k = j + 1 THEN At(array, i)
        ELSE array[k]]

\* arr.every((val, idx) => idx === 0 || val >= arr[idx - 1])
EveryNonDecreasing(array) ==
    \A idx \in 0..(Len(array) - 1) : idx = 0 \/ At(array, idx) >= At(array, idx - 1)

\* --------------------------------------------------------- algorithms.js
AlgorithmKeys == {"bubble", "selection", "insertion"}

\* ALGORITHMS is an object literal: besides its three own keys, a lookup
\* ALGORITHMS[k] finds the members inherited from Object.prototype, which are
\* truthy and have no .key.
InheritedKeys == {"constructor"}
Undefined == "undefined"

\* ALGORITHMS[k]: Null when the lookup yields undefined.
ALGORITHMS(k) ==
    IF k \in AlgorithmKeys THEN Some([key |-> k])
    ELSE IF k \in InheritedKeys THEN Some([key |-> Undefined])
    ELSE Null

STEP_TYPES == [SWAP |-> "swap", COMPARE |-> "compare", NO_ACTION |-> "no_action"]

\* A step that records the two values in the order they have after the swap.
SwapStepValuesReversed(array, i, j) ==
    [type |-> STEP_TYPES.SWAP, indices |-> <<i, j>>, values |-> <<At(array, j), At(array, i)>>]

SwapStep(array, i, j) ==
    [type |-> STEP_TYPES.SWAP, indices |-> <<i, j>>, values |-> <<At(array, i), At(array, j)>>]

\* An inner loop that records the step after swapping, so with the values
\* the two positions hold afterwards.
RECURSIVE BubblePassRecordsAfterSwap(_, _, _, _, _)
BubblePassRecordsAfterSwap(array, steps, i, j, swapped) ==
    IF j < Len(array) - i - 1
    THEN IF At(array, j) > At(array, j + 1)
         THEN BubblePassRecordsAfterSwap(
                  SwapAt(array, j, j + 1),
                  Append(steps, SwapStep(SwapAt(array, j, j + 1), j, j + 1)),
                  i, j + 1, TRUE)
         ELSE BubblePassRecordsAfterSwap(array, steps, i, j + 1, swapped)
    ELSE [array |-> array, steps |-> steps, swapped |-> swapped]

\* An inner loop that also swaps two neighbours holding equal values.
RECURSIVE BubblePassSwapsEqual(_, _, _, _, _)
BubblePassSwapsEqual(array, steps, i, j, swapped) ==
    IF j < Len(array) - i - 1
    THEN IF At(array, j) >= At(array, j + 1)
         THEN BubblePassSwapsEqual(SwapAt(array, j, j + 1),
                                   Append(steps, SwapStep(array, j, j + 1)),
                                   i, j + 1, TRUE)
         ELSE BubblePassSwapsEqual(array, steps, i, j + 1, swapped)
    ELSE [array |-> array, steps |-> steps, swapped |-> swapped]

\* The inner loop of generateBubbleSortSteps from position j of pass i.
RECURSIVE BubblePass(_, _, _, _, _)
BubblePass(array, steps, i, j, swapped) ==
    IF j < Len(array) - i - 1
    THEN IF At(array, j) > At(array, j + 1)
         THEN BubblePass(SwapAt(array, j, j + 1), Append(steps, SwapStep(array, j, j + 1)),
                         i, j + 1, TRUE)
         ELSE BubblePass(array, steps, i, j + 1, swapped)
    ELSE [array |-> array, steps |-> steps, swapped |-> swapped]

\* A bubble sort that stops after its first pass.
BubbleFirstPassOnly(array, steps, i) ==
    IF i < Len(array) - 1 THEN BubblePass(array, steps, i, 0, FALSE).steps ELSE steps

\* The outer loop of generateBubbleSortSteps from pass i.
RECURSIVE BubbleLoop(_, _, _)
BubbleLoop(array, steps, i) ==
    IF i < Len(array) - 1
    THEN LET pass == BubblePass(array, steps, i, 0, FALSE)
         IN  IF ~pass.swapped THEN pass.steps
             ELSE BubbleLoop(pass.array, pass.steps, i + 1)
    ELSE steps

generateBubbleSortSteps(arr) == BubbleLoop(arr, <<>>, 0)

\* A minimum search that moves on to a later position holding an equal value.
RECURSIVE MinSearchLastEqual(_, _, _)
MinSearchLastEqual(array, minIdx, j) ==
    IF j < Len(array)
    THEN MinSearchLastEqual(array, IF At(array, j) <= At(array, minIdx) THEN j ELSE minIdx,
                            j + 1)
    ELSE minIdx

\* A search that looks for the maximum of the suffix.
RECURSIVE MinSearchFindsMax(_, _, _)
MinSearchFindsMax(array, minIdx, j) ==
    IF j < Len(array)
    THEN MinSearchFindsMax(array, IF At(array, j) > At(array, minIdx) THEN j ELSE minIdx,
                           j + 1)
    ELSE minIdx

\* The minimum search of generateSelectionSortSteps from position j.
RECURSIVE MinSearch(_, _, _)
MinSearch(array, minIdx, j) ==
    IF j < Len(array)
    THEN MinSearch(array, IF At(array, j) < At(array, minIdx) THEN j ELSE minIdx, j + 1)
    ELSE minIdx

\* An outer loop that records the step and leaves its working copy unswapped.
RECURSIVE SelectionLoopNoSwap(_, _, _)
SelectionLoopNoSwap(array, steps, i) ==
    IF i < Len(array) - 1
    THEN LET minIdx == MinSearch(array, i, i + 1)
         IN  IF minIdx # i
             THEN SelectionLoopNoSwap(array, Append(steps, SwapStep(array, i, minIdx)), i + 1)
             ELSE SelectionLoopNoSwap(array, steps, i + 1)
    ELSE steps

\* An outer loop that records a step for every boundary, also when the
\* minimum is already in place.
RECURSIVE SelectionLoopAlwaysEmits(_, _, _)
SelectionLoopAlwaysEmits(array, steps, i) ==
    IF i < Len(array) - 1
    THEN LET minIdx == MinSearch(array, i, i + 1)
         IN  SelectionLoopAlwaysEmits(SwapAt(array, i, minIdx),
                                      Append(steps, SwapStep(array, i, minIdx)), i + 1)
    ELSE steps

\* The outer loop of generateSelectionSortSteps from boundary i.
RECURSIVE SelectionLoop(_, _, _)
SelectionLoop(array, steps, i) ==
    IF i < Len(array) - 1
    THEN LET minIdx == MinSearch(array, i, i + 1)
         IN  IF minIdx # i
             THEN SelectionLoop(SwapAt(array, i, minIdx),
                                Append(steps, SwapStep(array, i, minIdx)), i + 1)
             ELSE SelectionLoop(array, steps, i + 1)
    ELSE steps

generateSelectionSortSteps(arr) == SelectionLoop(arr, <<>>, 0)

\* A while loop that also moves the element past a left neighbour equal to it.
RECURSIVE InsertLeftPastEqual(_, _, _)
InsertLeftPastEqual(array, steps, j) ==
    IF j > 0 /\ At(array, j - 1) >= At(array, j)
    THEN InsertLeftPastEqual(SwapAt(array, j - 1, j),
                             Append(steps, SwapStep(array, j - 1, j)), j - 1)
    ELSE [array |-> array, steps |-> steps]

\* The while loop of generateInsertionSortSteps moving the element at j left.
RECURSIVE InsertLeft(_, _, _)
InsertLeft(array, steps, j) ==
    IF j > 0 /\ At(array, j - 1) > At(array, j)
    THEN InsertLeft(SwapAt(array, j - 1, j), Append(steps, SwapStep(array, j - 1, j)), j - 1)
    ELSE [array |-> array, steps |-> steps]

\* The outer loop of generateInsertionSortSteps from position i.
RECURSIVE InsertionLoop(_, _, _)
InsertionLoop(array, steps, i) ==
    IF i < Len(array)
    THEN LET moved == InsertLeft(array, steps, i)
         IN  InsertionLoop(moved.array, moved.steps, i + 1)
    ELSE steps

generateInsertionSortSteps(arr) == InsertionLoop(arr, <<>>, 1)

\* A dispatch that sends "selection" to the bubble sort generator.
generateStepsSelectionAsBubble(algorithmKey, arr) ==
    CASE algorithmKey = "bubble" -> [threw |-> FALSE, steps |-> generateBubbleSortSteps(arr)]
      [] algorithmKey = "selection" -> [threw |-> FALSE, steps |-> generateBubbleSortSteps(arr)]
      [] algorithmKey = "insertion" -> [threw |-> FALSE, steps |-> generateInsertionSortSteps(arr)]
      [] OTHER -> [threw |-> TRUE, steps |-> <<>>]

\* generateStepsForAlgorithm: threw is TRUE where the code throws
\* Error(`Algoritm necunoscut: ...`).
generateStepsForAlgorithm(algorithmKey, arr) ==
    CASE algorithmKey = "bubble" -> [threw |-> FALSE, steps |-> generateBubbleSortSteps(arr)]
      [] algorithmKey = "selection" -> [threw |-> FALSE, steps |-> generateSelectionSortSteps(arr)]
      [] algorithmKey = "insertion" -> [threw |-> FALSE, steps |-> generateInsertionSortSteps(arr)]
      [] OTHER -> [threw |-> TRUE, steps |-> <<>>]

\* A validation that accepts the pair only in the order the step records it.
validateMoveOrderedOnly(expectedStep, index1, index2) ==
    IF expectedStep = Null THEN FALSE
    ELSE LET expectedIdx1 == Get(expectedStep).indices[1]
             expectedIdx2 == Get(expectedStep).indices[2]
         IN  index1 = expectedIdx1 /\ index2 = expectedIdx2

\* validateMove(expectedStep, index1, index2); expectedStep is Null or Some(step).
validateMove(expectedStep, index1, index2) ==
    IF expectedStep = Null THEN FALSE
    ELSE LET expectedIdx1 == Get(expectedStep).indices[1]
             expectedIdx2 == Get(expectedStep).indices[2]
         IN  \/ (index1 = expectedIdx1 /\ index2 = expectedIdx2)
             \/ (index1 = expectedIdx2 /\ index2 = expectedIdx1)

\* -------------------------------------------------------- game-engine.js
GAME_STATES == [IDLE |-> "idle", PLAYING |-> "playing", COMPLETED |-> "completed",
                PAUSED |-> "paused"]

\* Date.now(): the code only stores it and tests it for truthiness, so every
\* reading is the one token Now.
Now == "now"

\* The fields reset() assigns: the state of a GameEngine after construction.
reset ==
    [state |-> GAME_STATES.IDLE,
     numbers |-> <<>>,
     originalNumbers |-> <<>>,
     currentAlgorithm |-> Null,
     stepQueue |-> <<>>,
     currentStepIndex |-> 0,
     selectedIndex |-> Null,
     stats |-> [totalMoves |-> 0, correctMoves |-> 0, incorrectMoves |-> 0,
                startTime |-> Null, endTime |-> Null]]

\* Math.floor(Math.random() * 3) + 5 picks one of three consecutive counts;
\* the model keeps the two smallest of a scaled-down range, 2 and 3.
Counts == {2, 3}

\* A generator that returns a sorted shuffle as it is.
UnsortNothing(arr) == arr

\* A sorted check that is skipped for an array of two elements.
UnsortOnlyLong(arr) == IF Len(arr) > 2 /\ EveryNonDecreasing(arr) THEN SwapAt(arr, 0, 1) ELSE arr

\* The last statement of generateRandomNumbers: an array that came out
\* sorted has its first two elements exchanged.
UnsortFirstTwo(arr) == IF EveryNonDecreasing(arr) THEN SwapAt(arr, 0, 1) ELSE arr

\* Every array generateRandomNumbers() can return: numCount distinct values
\* (a Set filled by resampling), in any order (the shuffle), then UnsortFirstTwo.
generateRandomNumbers ==
    UNION { { UnsortFirstTwo(arr) :
                arr \in { a \in [1..numCount -> Values] :
                            \A p, q \in 1..numCount : p # q => a[p] # a[q] } } :
            numCount \in Counts }

\* Every descriptor selectRandomAlgorithm() can return.
selectRandomAlgorithm == { ALGORITHMS(k) : k \in AlgorithmKeys }

\* The shape of every value an operation returns; a field the code leaves
\* out of a result holds the value it has here.
NoResult ==
    [success |-> FALSE, correct |-> FALSE, completed |-> FALSE, action |-> "",
     indices |-> <<>>, expectedIndices |-> <<>>, message |-> "", totalSteps |-> Null]

\* The outcome of a call: the engine afterwards, whether the call threw,
\* and the value returned (NoResult when it threw).
Outcome(g, raised, ret) == [g |-> g, raised |-> raised, ret |-> ret]

\* this.stepQueue[this.currentStepIndex]: Null when undefined.
ExpectedStep(g) ==
    IF g.currentStepIndex >= 0 /\ g.currentStepIndex < Len(g.stepQueue)
    THEN Some(At(g.stepQueue, g.currentStepIndex))
    ELSE Null

isSorted(g) == EveryNonDecreasing(g.numbers)

\* A completeGame that records no end time.
completeGameNoEndTime(g) == [g EXCEPT !.state = GAME_STATES.COMPLETED]

completeGame(g) ==
    [g EXCEPT !.state = GAME_STATES.COMPLETED, !.stats.endTime = Some(Now)]

\* An end-of-plan test that is late by one step.
IsCompleteLateByOne(g) == g.currentStepIndex > Len(g.stepQueue)

\* isComplete = this.currentStepIndex >= this.stepQueue.length
IsComplete(g) == g.currentStepIndex >= Len(g.stepQueue)

\* A rejection that counts nothing.
RejectMoveUncounted(g) == g

\* A rejection that counts the move and also passes over the expected step.
RejectMoveSkipsStep(g) ==
    [g EXCEPT !.stats.incorrectMoves = @ + 1, !.currentStepIndex = @ + 1]

\* A rejection that counts the move and sends the cursor back to the first step.
RejectMoveRewinds(g) ==
    [g EXCEPT !.stats.incorrectMoves = @ + 1, !.currentStepIndex = 0]

\* A rejection that counts the move and takes back one correct move.
RejectMoveUndoesCorrect(g) ==
    [g EXCEPT !.stats.incorrectMoves = @ + 1, !.stats.correctMoves = @ - 1]

\* A rejection that adds the move to the wrong counter.
RejectMoveCountsAsCorrect(g) == [g EXCEPT !.stats.correctMoves = @ + 1]

\* this.stats.incorrectMoves++
RejectMove(g) == [g EXCEPT !.stats.incorrectMoves = @ + 1]

\* An index check that lets the position one past the end through.
IndexInvalidPastEnd(g, index) == index < 0 \/ index > Len(g.numbers)

\* index < 0 || index >= this.numbers.length
IndexInvalid(g, index) == index < 0 \/ index >= Len(g.numbers)

\* A deselection that leaves the selection in place.
KeepSelection(g) == g

\* this.selectedIndex = null
ClearSelection(g) == [g EXCEPT !.selectedIndex = Null]

\* A progress that reports the share of the plan still to do.
getProgressOfRemaining(g) ==
    LET total == Len(g.stepQueue)
        completed == g.currentStepIndex
    IN  [completed |-> completed,
         total |-> total,
         percentage |-> IF total > 0
                        THEN (200 * (total - completed) + total) \div (2 * total) ELSE 0,
         remaining |-> total - completed]

\* A progress whose percentage is cut to the integer below instead of rounded.
getProgressTruncates(g) ==
    LET total == Len(g.stepQueue)
        completed == g.currentStepIndex
    IN  [completed |-> completed,
         total |-> total,
         percentage |-> IF total > 0 THEN (100 * completed) \div total ELSE 0,
         remaining |-> total - completed]

\* getProgress()
getProgress(g) ==
    LET total == Len(g.stepQueue)
        completed == g.currentStepIndex
    IN  [completed |-> completed,
         total |-> total,
         \* Math.round(x) is floor(x + 1/2) for x >= 0.
         percentage |-> IF total > 0 THEN (200 * completed + total) \div (2 * total) ELSE 0,
         remaining |-> total - completed]

\* A startNewGame that does not call reset() first.
startNewGameNoReset(g, algorithmKey, randomAlgorithm, arr) ==
    LET chosen == IF algorithmKey # Null /\ ALGORITHMS(Get(algorithmKey)) # Null
                  THEN ALGORITHMS(Get(algorithmKey))
                  ELSE randomAlgorithm
        g1 == [g EXCEPT !.currentAlgorithm = chosen,
                        !.numbers = arr,
                        !.originalNumbers = arr]
        gen == generateStepsForAlgorithm(Get(chosen).key, arr)
        g2 == [g1 EXCEPT !.stepQueue = gen.steps,
                         !.currentStepIndex = 0,
                         !.state = GAME_STATES.PLAYING,
                         !.stats.startTime = Some(Now)]
    IN  IF gen.threw
        THEN Outcome(g1, TRUE, NoResult)
        ELSE Outcome(g2, FALSE,
                     [NoResult EXCEPT !.totalSteps = Some(Len(g2.stepQueue))])

\* startNewGame(algorithmKey) with the random draws it makes given:
\* randomAlgorithm is what selectRandomAlgorithm() returns if it is called,
\* arr what generateRandomNumbers() returns.  algorithmKey is Null or Some(k).
startNewGame(g, algorithmKey, randomAlgorithm, arr) ==
    LET chosen == IF algorithmKey # Null /\ ALGORITHMS(Get(algorithmKey)) # Null
                  THEN ALGORITHMS(Get(algorithmKey))
                  ELSE randomAlgorithm
        g1 == [reset EXCEPT !.currentAlgorithm = chosen,
                            !.numbers = arr,
                            !.originalNumbers = arr]
        gen == generateStepsForAlgorithm(Get(chosen).key, arr)
        g2 == [g1 EXCEPT !.stepQueue = gen.steps,
                         !.currentStepIndex = 0,
                         !.state = GAME_STATES.PLAYING,
                         !.stats.startTime = Some(Now)]
    IN  IF gen.threw
        THEN Outcome(g1, TRUE, NoResult)
        ELSE Outcome(g2, FALSE,
                     [NoResult EXCEPT !.totalSteps = Some(Len(g2.stepQueue))])

\* attemptSwap(index1, index2)
attemptSwap(g, index1, index2) ==
    IF g.state # GAME_STATES.PLAYING
    THEN Outcome(g, FALSE, [NoResult EXCEPT !.message = "Jocul nu este activ!"])
    ELSE
    LET g1 == [g EXCEPT !.stats.totalMoves = @ + 1]
        expectedStep == ExpectedStep(g1)
    IN  IF expectedStep = Null
        THEN IF isSorted(g1)
             THEN Outcome(completeGame(g1), FALSE,
                          [NoResult EXCEPT !.success = TRUE, !.correct = TRUE,
                                           !.completed = TRUE,
                                           !.message = "Array-ul este deja sortat!"])
             ELSE Outcome(g1, FALSE,
                          [NoResult EXCEPT !.message = "Nu mai sunt mutari necesare."])
        ELSE IF validateMove(expectedStep, index1, index2)
        THEN LET g2 == [g1 EXCEPT !.stats.correctMoves = @ + 1,
                                  !.numbers = SwapAt(@, index1, index2),
                                  !.currentStepIndex = @ + 1]
                 isComplete == IsComplete(g2)
                 g3 == IF isComplete THEN completeGame(g2) ELSE g2
             IN  Outcome(g3, FALSE,
                         [NoResult EXCEPT !.success = TRUE, !.correct = TRUE,
                                          !.completed = isComplete,
                                          !.indices = <<index1, index2>>,
                                          !.message = "Corect! Continua."])
        ELSE Outcome(RejectMove(g1), FALSE,
                     [NoResult EXCEPT !.indices = <<index1, index2>>,
                                      !.expectedIndices = Get(expectedStep).indices,
                                      !.message = "Mutare gresita!"])

\* A selectElement whose swap-attempt leaves the newly clicked index selected.
selectElementKeepsNewIndex(g, index) ==
    IF g.state # GAME_STATES.PLAYING
    THEN Outcome(g, FALSE, [NoResult EXCEPT !.message = "Jocul nu este activ!"])
    ELSE IF IndexInvalid(g, index)
    THEN Outcome(g, FALSE, [NoResult EXCEPT !.message = "Index invalid!"])
    ELSE IF g.selectedIndex = Null
    THEN Outcome([g EXCEPT !.selectedIndex = Some(index)], FALSE,
                 [NoResult EXCEPT !.success = TRUE, !.action = "selected",
                                  !.message = "Selectat"])
    ELSE IF g.selectedIndex = Some(index)
    THEN Outcome(ClearSelection(g), FALSE,
                 [NoResult EXCEPT !.success = TRUE, !.action = "deselected",
                                  !.message = "Selectie anulata."])
    ELSE attemptSwap([g EXCEPT !.selectedIndex = Some(index)], Get(g.selectedIndex), index)

\* selectElement(index)
selectElement(g, index) ==
    IF g.state # GAME_STATES.PLAYING
    THEN Outcome(g, FALSE, [NoResult EXCEPT !.message = "Jocul nu este activ!"])
    ELSE IF IndexInvalid(g, index)
    THEN Outcome(g, FALSE, [NoResult EXCEPT !.message = "Index invalid!"])
    ELSE IF g.selectedIndex = Null
    THEN Outcome([g EXCEPT !.selectedIndex = Some(index)], FALSE,
                 [NoResult EXCEPT !.success = TRUE, !.action = "selected",
                                  !.message = "Selectat"])
    ELSE IF g.selectedIndex = Some(index)
    THEN Outcome(ClearSelection(g), FALSE,
                 [NoResult EXCEPT !.success = TRUE, !.action = "deselected",
                                  !.message = "Selectie anulata."])
    ELSE attemptSwap(ClearSelection(g), Get(g.selectedIndex), index)

\* changeAlgorithm(algorithmKey) with the random draws startNewGame makes.
changeAlgorithm(g, algorithmKey, randomAlgorithm, arr) ==
    IF ALGORITHMS(algorithmKey) # Null
    THEN startNewGame(g, Some(algorithmKey), randomAlgorithm, arr)
    ELSE Outcome(g, TRUE, NoResult)

\* ------------------------------------------------------------------ state
VARIABLES
    \* the fields of the GameEngine singleton
    state, numbers, originalNumbers, currentAlgorithm, stepQueue, currentStepIndex,
    selectedIndex, stats,
    \* the last call made on the engine: its name, arguments and outcome
    last,
    \* a direct call of generateStepsForAlgorithm: its arguments, what it
    \* returned, and the replay of the returned steps on a copy of the input
    genKey, genArr, genPc, genOut, replayArr, replayPos,
    \* a direct call of validateMove: its arguments and what it returned
    validation

engineVars == <<state, numbers, originalNumbers, currentAlgorithm, stepQueue,
                currentStepIndex, selectedIndex, stats>>
genVars == <<genKey, genArr, genPc, genOut, replayArr, replayPos, validation>>
vars == <<engineVars, last, genVars>>

\* The engine as one value, as the operations above take it.
Engine ==
    [state |-> state, numbers |-> numbers, originalNumbers |-> originalNumbers,
     currentAlgorithm |-> currentAlgorithm, stepQueue |-> stepQueue,
     currentStepIndex |-> currentStepIndex, selectedIndex |-> selectedIndex,
     stats |-> stats]

\* The engine after the step.
EngineNext ==
    [state |-> state', numbers |-> numbers', originalNumbers |-> originalNumbers',
     currentAlgorithm |-> currentAlgorithm', stepQueue |-> stepQueue',
     currentStepIndex |-> currentStepIndex', selectedIndex |-> selectedIndex',
     stats |-> stats']

EngineIs(g) ==
    /\ state = g.state
    /\ numbers = g.numbers
    /\ originalNumbers = g.originalNumbers
    /\ currentAlgorithm = g.currentAlgorithm
    /\ stepQueue = g.stepQueue
    /\ currentStepIndex = g.currentStepIndex
    /\ selectedIndex = g.selectedIndex
    /\ stats = g.stats

Install(g) ==
    /\ state' = g.state
    /\ numbers' = g.numbers
    /\ originalNumbers' = g.originalNumbers
    /\ currentAlgorithm' = g.currentAlgorithm
    /\ stepQueue' = g.stepQueue
    /\ currentStepIndex' = g.currentStepIndex
    /\ selectedIndex' = g.selectedIndex
    /\ stats' = g.stats

Call(op, args, out) ==
    [op |-> op, args |-> args, raised |-> out.raised, ret |-> out.ret]

\* The moves followed in one game: the incorrect ones are capped.
WithinMoves(g) ==
    /\ g.stats.incorrectMoves <= MaxIncorrect
    /\ g.stats.totalMoves <= Len(g.stepQueue) + MaxIncorrect

\* The identifiers a caller passes: the three algorithms, one that names
\* nothing, and one that names an inherited member of ALGORITHMS.
KeyArgs == AlgorithmKeys \cup {"quicksort"} \cup InheritedKeys

\* The indices a caller passes for an array: every position, and one past
\* each end.
IndexArgs(array) == (0 - 1)..Len(array)

\* No call of validateMove made yet.
NotValidated == [expectedStep |-> Null, index1 |-> 0, index2 |-> 0, result |-> FALSE]

GenIdle ==
    /\ genKey = "" /\ genArr = <<>> /\ genPc = "idle"
    /\ genOut = [threw |-> FALSE, steps |-> <<>>]
    /\ replayArr = <<>> /\ replayPos = 0
    /\ validation = NotValidated

Init ==
    /\ EngineIs(reset)
    /\ last = Call("constructor", <<>>, Outcome(reset, FALSE, NoResult))
    /\ GenIdle

\* --------------------------------------------------------------- actions
\* What selectRandomAlgorithm() contributes to startNewGame(algorithmKey):
\* nothing (Null) when the key is found in ALGORITHMS and it is not called.
RandomAlgorithms(algorithmKey) ==
    IF algorithmKey # Null /\ ALGORITHMS(Get(algorithmKey)) # Null
    THEN {Null}
    ELSE selectRandomAlgorithm

\* engine.startNewGame(algorithmKey), with or without an argument.
StartNewGame ==
    \E algorithmKey \in {Null} \cup { Some(k) : k \in KeyArgs } :
    \E arr \in generateRandomNumbers :
    \E randomAlgorithm \in RandomAlgorithms(algorithmKey) :
        \E out \in { startNewGame(Engine, algorithmKey, randomAlgorithm, arr) } :
            /\ Install(out.g)
            /\ last' = Call("startNewGame", algorithmKey, out)
            /\ UNCHANGED genVars

\* engine.changeAlgorithm(algorithmKey)
ChangeAlgorithm ==
    \E algorithmKey \in KeyArgs :
    \E arr \in generateRandomNumbers :
    \E randomAlgorithm \in RandomAlgorithms(Some(algorithmKey)) :
        \E out \in { changeAlgorithm(Engine, algorithmKey, randomAlgorithm, arr) } :
            /\ Install(out.g)
            /\ last' = Call("changeAlgorithm", <<algorithmKey>>, out)
            /\ UNCHANGED genVars

\* engine.selectElement(index)
SelectElement ==
    \E index \in IndexArgs(numbers) :
        \E out \in { selectElement(Engine, index) } :
            /\ WithinMoves(out.g)
            /\ Install(out.g)
            /\ last' = Call("selectElement", <<index>>, out)
            /\ UNCHANGED genVars

\* The Escape key handler of main.js: this.engine.selectedIndex = null.
EscapeKey ==
    /\ selectedIndex' = Null
    /\ last' = Call("escape", <<>>, Outcome(Engine, FALSE, NoResult))
    /\ UNCHANGED <<state, numbers, originalNumbers, currentAlgorithm, stepQueue,
                   currentStepIndex, stats>>
    /\ UNCHANGED genVars

Next ==
    \/ StartNewGame
    \/ ChangeAlgorithm
    \/ SelectElement
    \/ EscapeKey

Spec == Init /\ [][Next]_vars

\* ------------------------------------------- the generators called directly
\* The arrays handed to a generator: every length up to MaxLen, values
\* repeated or not.
GenInputs == UNION { [1..n -> Values] : n \in 0..MaxLen }

\* The two arrays of the worked examples, handed to a generator as well.
ScenarioInputs == { <<5, 3, 4>>, <<4, 1, 3>> }

GenInit ==
    /\ EngineIs(reset)
    /\ last = Call("constructor", <<>>, Outcome(reset, FALSE, NoResult))
    /\ genKey \in AlgorithmKeys \cup {"quicksort"}
    /\ genArr \in GenInputs \cup ScenarioInputs
    /\ genPc = "call"
    /\ genOut = [threw |-> FALSE, steps |-> <<>>]
    /\ replayArr = <<>>
    /\ replayPos = 0
    /\ validation = NotValidated

\* generateStepsForAlgorithm(genKey, genArr) returns or throws.
Generate ==
    /\ genPc = "call"
    /\ genOut' = generateStepsForAlgorithm(genKey, genArr)
    /\ genPc' = IF genOut'.threw THEN "threw" ELSE "replay"
    /\ replayArr' = genArr
    /\ replayPos' = 0
    /\ UNCHANGED <<genKey, genArr, validation, engineVars, last>>

\* The next step of the returned plan is applied to the copy of the input.
ApplyStep ==
    /\ genPc = "replay"
    /\ replayPos < Len(genOut.steps)
    /\ LET step == At(genOut.steps, replayPos)
       IN  replayArr' = SwapAt(replayArr, step.indices[1], step.indices[2])
    /\ replayPos' = replayPos + 1
    /\ UNCHANGED <<genKey, genArr, genPc, genOut, validation, engineVars, last>>

\* The replay ends when every step is applied.
FinishReplay ==
    /\ genPc = "replay"
    /\ replayPos = Len(genOut.steps)
    /\ genPc' = "done"
    /\ UNCHANGED <<genKey, genArr, genOut, replayArr, replayPos, validation,
                   engineVars, last>>

\* validateMove(expectedStep, index1, index2) called on a step of the returned
\* plan, or on no step, with every pair of indices a caller can pass.
ValidateMove ==
    /\ genPc = "done"
    /\ \E expectedStep \in {Null} \cup { Some(At(genOut.steps, k)) :
                                            k \in 0..(Len(genOut.steps) - 1) } :
       \E index1, index2 \in IndexArgs(genArr) :
           validation' = [expectedStep |-> expectedStep,
                          index1 |-> index1, index2 |-> index2,
                          result |-> validateMove(expectedStep, index1, index2)]
    /\ genPc' = "validated"
    /\ UNCHANGED <<genKey, genArr, genOut, replayArr, replayPos, engineVars, last>>

GenNext == Generate \/ ApplyStep \/ FinishReplay \/ ValidateMove

GenSpec == GenInit /\ [][GenNext]_vars

\* ------------------------------------------- the games of the worked examples
\* engine.startNewGame(algorithmKey) on a new engine, where the array
\* generateRandomNumbers() returns is one of the worked examples.
StartScenarioGame ==
    /\ state = GAME_STATES.IDLE
    /\ \E algorithmKey \in AlgorithmKeys :
       \E arr \in ScenarioInputs :
           \E out \in { startNewGame(Engine, Some(algorithmKey), Null, arr) } :
               /\ Install(out.g)
               /\ last' = Call("startNewGame", Some(algorithmKey), out)
    /\ UNCHANGED genVars

ScenarioNext ==
    \/ StartScenarioGame
    \/ SelectElement
    \/ EscapeKey

ScenarioSpec == Init /\ [][ScenarioNext]_vars

\* ------------------------------------------------------------ properties
\* The step at the cursor, where there is one.
CursorStep == Get(ExpectedStep(Engine))

\* The two orders in which a caller can name the pair of the step at the cursor.
CursorPairs ==
    { <<CursorStep.indices[1], CursorStep.indices[2]>>,
      <<CursorStep.indices[2], CursorStep.indices[1]>> }

\* C1: for bubble, selection and insertion and every input of length >= 2,
\* with distinct or repeated values, the array obtained by applying the
\* swaps of the generated plan in order to the input is non-decreasing.
C1_PlanSorts ==
    (genPc = "done" /\ Len(genArr) >= 2) => EveryNonDecreasing(replayArr)

\* C1 witness: a finished replay of a plan of at least two steps on an input
\* that repeats a value.
C1_Witness ==
    /\ genPc = "done"
    /\ Len(genArr) >= 2
    /\ Len(genOut.steps) >= 2
    /\ replayPos = Len(genOut.steps)
    /\ \E p, q \in 1..Len(genArr) : p # q /\ genArr[p] = genArr[q]

\* C2: making the correct swap-attempt for each step in order ends the game
\* sorted, whatever was interleaved.  While the game is playing there is a
\* step at the cursor, and selecting its two positions (in either order, after
\* whatever selection is pending has been consumed) is accepted and consumes
\* exactly that step; a session whose cursor has reached the plan length is
\* completed; and a completed session has cursor = plan length and a sorted
\* sequence.
C2_ReplayCompletes ==
    /\ state = GAME_STATES.PLAYING =>
          /\ ExpectedStep(Engine) # Null
          /\ \A pair \in CursorPairs :
                LET first == selectElement(ClearSelection(Engine), pair[1])
                    second == selectElement(first.g, pair[2])
                IN  /\ InRange(numbers, pair[1]) /\ InRange(numbers, pair[2])
                    /\ first.ret.action = "selected"
                    /\ second.ret.correct
                    /\ second.g.currentStepIndex = currentStepIndex + 1
    /\ (state # GAME_STATES.IDLE /\ currentStepIndex = Len(stepQueue)) =>
          state = GAME_STATES.COMPLETED
    /\ state = GAME_STATES.COMPLETED =>
          /\ currentStepIndex = Len(stepQueue)
          /\ isSorted(Engine)

\* C2 witness: a game of at least two steps completed by a selectElement
\* call, with an incorrect attempt made on the way.
C2_Witness ==
    /\ state = GAME_STATES.COMPLETED
    /\ last.op = "selectElement"
    /\ last.ret.completed
    /\ Len(stepQueue) >= 2
    /\ stats.correctMoves = Len(stepQueue)
    /\ stats.incorrectMoves >= 1

\* C3: totalMoves = correctMoves + incorrectMoves in every reachable state.
C3_MovesAddUp ==
    stats.totalMoves = stats.correctMoves + stats.incorrectMoves

\* C3 witness: a swap-attempt has just returned and the session has seen
\* both a correct and an incorrect move.
C3_Witness ==
    /\ last.op = "selectElement"
    /\ last.ret.indices # <<>>
    /\ stats.correctMoves >= 1
    /\ stats.incorrectMoves >= 1

\* C4: a swap-attempt whose unordered pair differs from the pair of the step
\* at the cursor increments incorrectMoves and totalMoves by one, leaves
\* sequence, cursor, plan, state and correctMoves unchanged, and returns a
\* failure whose expectedIndices are the indices of the step at the cursor.
\* Stated of the attempt itself and of the selectElement call that makes it.
C4_IncorrectAttempt ==
    (state = GAME_STATES.PLAYING /\ ExpectedStep(Engine) # Null) =>
        \A index1, index2 \in IndexArgs(numbers) :
            {index1, index2} # {CursorStep.indices[1], CursorStep.indices[2]} =>
                \A out \in { attemptSwap(Engine, index1, index2) } \cup
                           ( IF selectedIndex = Some(index1) /\ index1 # index2
                                /\ InRange(numbers, index2)
                             THEN { selectElement(Engine, index2) } ELSE {} ) :
                    /\ out.g.stats.incorrectMoves = stats.incorrectMoves + 1
                    /\ out.g.stats.totalMoves = stats.totalMoves + 1
                    /\ out.g.stats.correctMoves = stats.correctMoves
                    /\ out.g.numbers = numbers
                    /\ out.g.currentStepIndex = currentStepIndex
                    /\ out.g.stepQueue = stepQueue
                    /\ out.g.state = state
                    /\ ~out.raised
                    /\ ~out.ret.success /\ ~out.ret.correct
                    /\ out.ret.expectedIndices = CursorStep.indices

\* C4 witness: an incorrect attempt has just been rejected, and the step it
\* was checked against is still at the cursor.
C4_Witness ==
    /\ last.op = "selectElement"
    /\ ~last.ret.success
    /\ last.ret.indices # <<>>
    /\ state = GAME_STATES.PLAYING
    /\ last.ret.expectedIndices = CursorStep.indices
    /\ {last.ret.indices[1], last.ret.indices[2]} #
          {CursorStep.indices[1], CursorStep.indices[2]}
    /\ stats.incorrectMoves = 1

\* C5: a correct swap-attempt in state playing increments correctMoves by
\* one, exchanges exactly the two attempted positions of the sequence,
\* advances the cursor by exactly one, and completes the game, recording
\* endTime, if and only if the cursor then equals the plan length; the
\* returned completion flag is that condition.
C5_CorrectAttempt ==
    (state = GAME_STATES.PLAYING /\ ExpectedStep(Engine) # Null) =>
        \A pair \in CursorPairs :
            LET out == attemptSwap(Engine, pair[1], pair[2])
                atEnd == currentStepIndex + 1 = Len(stepQueue)
            IN  /\ out.ret.success /\ out.ret.correct
                /\ out.g.stats.correctMoves = stats.correctMoves + 1
                /\ Len(out.g.numbers) = Len(numbers)
                /\ At(out.g.numbers, pair[1]) = At(numbers, pair[2])
                /\ At(out.g.numbers, pair[2]) = At(numbers, pair[1])
                /\ \A k \in 0..(Len(numbers) - 1) :
                      k \notin {pair[1], pair[2]} => At(out.g.numbers, k) = At(numbers, k)
                /\ out.g.currentStepIndex = currentStepIndex + 1
                /\ out.ret.completed = atEnd
                /\ (out.g.state = GAME_STATES.COMPLETED) = atEnd
                /\ (out.g.stats.endTime # Null) = atEnd
                /\ ~atEnd => out.g.state = GAME_STATES.PLAYING

\* C5 witness: a correct attempt that did not end the game has just been made.
C5_Witness ==
    /\ last.op = "selectElement"
    /\ last.ret.correct
    /\ ~last.ret.completed
    /\ state = GAME_STATES.PLAYING
    /\ stats.endTime = Null
    /\ currentStepIndex >= 1

\* C6: startNewGame("quicksort"), an identifier that names no algorithm,
\* fails with an unrecognized-algorithm error and leaves every field of the
\* engine as it was.
C6_UnknownStartFails ==
    [][ (last'.op = "startNewGame" /\ last'.args = Some("quicksort"))
        => (last'.raised /\ EngineNext = Engine) ]_vars

\* C7: changeAlgorithm with an identifier that is none of the three
\* algorithms raises and changes no field of the engine; with one of the
\* three it returns, and afterwards the state is playing and the session's
\* algorithm is the requested one.
C7_ChangeAlgorithm ==
    [][ last'.op = "changeAlgorithm" =>
          IF last'.args[1] \in AlgorithmKeys
          THEN /\ ~last'.raised
               /\ state' = GAME_STATES.PLAYING
               /\ currentAlgorithm' = Some([key |-> last'.args[1]])
          ELSE /\ last'.raised
               /\ EngineNext = Engine ]_vars

\* C8: in state playing with nothing selected, selectElement called twice
\* with the same valid index selects it (action selected) and then clears it
\* (action deselected); the first call changes selectedIndex only, and after
\* the second the engine is what it was before the first.
C8_SelectToggles ==
    (state = GAME_STATES.PLAYING /\ selectedIndex = Null) =>
        \A index \in 0..(Len(numbers) - 1) :
            LET first == selectElement(Engine, index)
                second == selectElement(first.g, index)
            IN  /\ first.ret.success /\ first.ret.action = "selected"
                /\ first.g = [Engine EXCEPT !.selectedIndex = Some(index)]
                /\ second.ret.success /\ second.ret.action = "deselected"
                /\ second.g.selectedIndex = Null
                /\ second.g = Engine

\* C8 witness: the second of two selectElement calls on one index has just
\* returned deselected in a running game in which no move was ever counted.
C8_Witness ==
    /\ last.op = "selectElement"
    /\ last.ret.action = "deselected"
    /\ state = GAME_STATES.PLAYING
    /\ selectedIndex = Null
    /\ stats.totalMoves = 0

\* C9: selectElement called when the state is not playing, or with an index
\* outside 0 <= index < length(sequence), returns a non-success result,
\* changes no field of the engine and does not raise.
C9_SelectRejected ==
    \A index \in IndexArgs(numbers) :
        (state # GAME_STATES.PLAYING \/ index < 0 \/ index >= Len(numbers)) =>
            LET out == selectElement(Engine, index)
            IN  /\ ~out.ret.success
                /\ ~out.raised
                /\ out.g = Engine

\* C9 witness: selectElement has just rejected an out-of-range index in a
\* running game with a selection pending.
C9_Witness ==
    /\ last.op = "selectElement"
    /\ last.ret.message = "Index invalid!"
    /\ ~last.ret.success
    /\ state = GAME_STATES.PLAYING
    /\ selectedIndex # Null

\* C10: completed is terminal.  In state completed every selectElement and
\* every swap-attempt fails and leaves the engine as it is, and the state
\* leaves completed only by a new game being started: by startNewGame, or by
\* changeAlgorithm with one of the three identifiers, with state playing
\* afterwards.
C10_CompletedTerminal ==
    [][ state = GAME_STATES.COMPLETED =>
          /\ \A index \in IndexArgs(numbers) :
                LET out == selectElement(Engine, index)
                IN  ~out.ret.success /\ ~out.raised /\ out.g = Engine
          /\ \A index1, index2 \in IndexArgs(numbers) :
                LET out == attemptSwap(Engine, index1, index2)
                IN  ~out.ret.success /\ ~out.raised /\ out.g = Engine
          /\ state' # GAME_STATES.COMPLETED =>
                /\ \/ last'.op = "startNewGame"
                   \/ last'.op = "changeAlgorithm" /\ last'.args[1] \in AlgorithmKeys
                /\ state' = GAME_STATES.PLAYING ]_vars

\* C11: within one session getProgress().percentage never decreases across a
\* correct swap-attempt, and an incorrect swap-attempt, a selection, a
\* deselection and a rejected call leave it as it was.  Stated for every call
\* selectElement(index) a caller can make in a reachable state, and for the
\* Escape handler, which clears the selection.
C11_ProgressMonotone ==
    /\ \A index \in IndexArgs(numbers) :
           \A out \in { selectElement(Engine, index) } :
               /\ getProgress(out.g).percentage >= getProgress(Engine).percentage
               /\ ~out.ret.correct
                    => getProgress(out.g).percentage = getProgress(Engine).percentage
    /\ getProgress(ClearSelection(Engine)).percentage = getProgress(Engine).percentage

\* C11 witness: a correct swap-attempt has just raised the percentage of a
\* game that goes on, after an incorrect attempt that left it alone.
C11_Witness ==
    /\ last.op = "selectElement"
    /\ last.ret.correct
    /\ state = GAME_STATES.PLAYING
    /\ stats.incorrectMoves >= 1
    /\ getProgress(Engine).percentage > 0
    /\ getProgress(Engine).percentage < 100

\* C12: validateMove(step, a, b) is true exactly when the unordered pair
\* {a, b} is the pair of positions the step records; it gives the same answer
\* for (a, b) and (b, a); and with no step it is false for every a and b.
C12_ValidateMove ==
    genPc = "validated" =>
        /\ validation.expectedStep = Null => ~validation.result
        /\ validation.expectedStep # Null =>
              (validation.result <=>
                 {validation.index1, validation.index2}
                   = { Get(validation.expectedStep).indices[1],
                       Get(validation.expectedStep).indices[2] })
        /\ validation.result
             = validateMove(validation.expectedStep, validation.index2, validation.index1)

\* C12 witness: the pair of a step of a plan, named in the reverse of the
\* recorded order, was accepted.
C12_Witness ==
    /\ genPc = "validated"
    /\ validation.expectedStep # Null
    /\ validation.index1 = Get(validation.expectedStep).indices[2]
    /\ validation.index2 = Get(validation.expectedStep).indices[1]
    /\ validation.index1 # validation.index2
    /\ validation.result

\* A plan was returned for genArr by the generator genKey names.
PlanReturned == genPc \in {"replay", "done", "validated"}

\* n(n-1)/2
PairCount(n) == (n * (n - 1)) \div 2

\* C13: for every non-empty input of length n the plan has at most n(n-1)/2
\* steps for bubble, at most n-1 for selection and at most n(n-1)/2 for
\* insertion.
C13_PlanLengthBound ==
    (PlanReturned /\ Len(genArr) >= 1) =>
        /\ genKey = "bubble" => Len(genOut.steps) <= PairCount(Len(genArr))
        /\ genKey = "selection" => Len(genOut.steps) <= Len(genArr) - 1
        /\ genKey = "insertion" => Len(genOut.steps) <= PairCount(Len(genArr))

\* C13 witness: a bubble plan of exactly n(n-1)/2 steps for an input of
\* length n >= 3, more than the n-1 steps selection is allowed.
C13_Witness ==
    /\ genPc = "done"
    /\ genKey = "bubble"
    /\ Len(genArr) >= 3
    /\ Len(genOut.steps) = PairCount(Len(genArr))
    /\ Len(genOut.steps) > Len(genArr) - 1

\* At every boundary i the minimum of the suffix from i is already at i.
SuffixMinimaInPlace(arr) ==
    \A i \in 0..(Len(arr) - 2) :
        \A j \in (i + 1)..(Len(arr) - 1) : At(arr, i) <= At(arr, j)

\* No value occurs twice.
Distinct(arr) == \A p, q \in 1..Len(arr) : p # q => arr[p] # arr[q]

\* C14: the bubble plan and the insertion plan are empty exactly when the
\* input is non-decreasing; the selection plan is empty exactly when at every
\* boundary the minimum of the suffix is already in place, which for distinct
\* values is exactly when the input is sorted.
C14_EmptyPlan ==
    PlanReturned =>
        /\ genKey \in {"bubble", "insertion"}
             => (Len(genOut.steps) = 0 <=> EveryNonDecreasing(genArr))
        /\ genKey = "selection"
             => /\ Len(genOut.steps) = 0 <=> SuffixMinimaInPlace(genArr)
                /\ Distinct(genArr)
                     => (Len(genOut.steps) = 0 <=> EveryNonDecreasing(genArr))

\* C14 witness: the selection plan of a sorted input that repeats a value is
\* empty.
C14_Witness ==
    /\ genPc = "done"
    /\ genKey = "selection"
    /\ Len(genArr) >= 3
    /\ ~Distinct(genArr)
    /\ EveryNonDecreasing(genArr)
    /\ Len(genOut.steps) = 0

\* The game of the bubble sort example.
BubbleScenario ==
    /\ originalNumbers = <<5, 3, 4>>
    /\ currentAlgorithm # Null
    /\ Get(currentAlgorithm).key = "bubble"

\* C15: in the bubble game on [5,3,4] the plan is exactly swap(0,1) with
\* values (5,3), then swap(1,2) with values (5,4).  At cursor 0 the sequence
\* is [5,3,4] and attempting (0,1) succeeds, giving [3,5,4] and cursor 1.  At
\* cursor 1 the sequence is [3,5,4]; attempting (0,2) is rejected as incorrect
\* with expectedIndices [1,2] and changes neither sequence nor cursor, and
\* attempting (1,2) succeeds, giving [3,4,5], cursor 2 = plan length and
\* state completed.
C15_BubbleScenario ==
    BubbleScenario =>
        /\ stepQueue = << [type |-> "swap", indices |-> <<0, 1>>, values |-> <<5, 3>>],
                          [type |-> "swap", indices |-> <<1, 2>>, values |-> <<5, 4>>] >>
        /\ currentStepIndex = 0 =>
              /\ numbers = <<5, 3, 4>>
              /\ state = GAME_STATES.PLAYING
              /\ \A out \in { attemptSwap(Engine, 0, 1) } :
                    /\ out.ret.success /\ out.ret.correct /\ ~out.ret.completed
                    /\ out.g.numbers = <<3, 5, 4>>
                    /\ out.g.currentStepIndex = 1
                    /\ out.g.state = GAME_STATES.PLAYING
        /\ currentStepIndex = 1 =>
              /\ numbers = <<3, 5, 4>>
              /\ state = GAME_STATES.PLAYING
              /\ \A out \in { attemptSwap(Engine, 0, 2) } :
                    /\ ~out.ret.success /\ ~out.ret.correct
                    /\ out.ret.expectedIndices = <<1, 2>>
                    /\ out.g.numbers = numbers
                    /\ out.g.currentStepIndex = currentStepIndex
                    /\ out.g.state = GAME_STATES.PLAYING
              /\ \A out \in { attemptSwap(Engine, 1, 2) } :
                    /\ out.ret.success /\ out.ret.correct /\ out.ret.completed
                    /\ out.g.numbers = <<3, 4, 5>>
                    /\ out.g.currentStepIndex = 2
                    /\ out.g.currentStepIndex = Len(out.g.stepQueue)
                    /\ out.g.state = GAME_STATES.COMPLETED
        /\ currentStepIndex = 2 =>
              /\ numbers = <<3, 4, 5>>
              /\ state = GAME_STATES.COMPLETED
        /\ currentStepIndex \in 0..2

\* C15 witness: the bubble game on [5,3,4] was completed by the attempt
\* (1,2), after one rejected attempt.
C15_Witness ==
    /\ BubbleScenario
    /\ state = GAME_STATES.COMPLETED
    /\ numbers = <<3, 4, 5>>
    /\ currentStepIndex = 2
    /\ stats.correctMoves = 2
    /\ stats.incorrectMoves = 1
    /\ last.op = "selectElement"
    /\ last.ret.completed
    /\ last.ret.indices = <<1, 2>>

\* C16: the selection plan of [4,1,3] is exactly swap(0,1), then swap(1,2),
\* the first step with values (4,1), and applying it yields [1,3,4].
C16_SelectionScenario ==
    (PlanReturned /\ genKey = "selection" /\ genArr = <<4, 1, 3>>) =>
        /\ Len(genOut.steps) = 2
        /\ At(genOut.steps, 0) = [type |-> "swap", indices |-> <<0, 1>>, values |-> <<4, 1>>]
        /\ At(genOut.steps, 1).type = "swap"
        /\ At(genOut.steps, 1).indices = <<1, 2>>
        /\ genPc \in {"done", "validated"} => replayArr = <<1, 3, 4>>

\* C16 witness: the selection plan of [4,1,3] was generated and replayed to
\* its end.
C16_Witness ==
    /\ genPc = "done"
    /\ genKey = "selection"
    /\ genArr = <<4, 1, 3>>
    /\ replayPos = 2
    /\ replayArr = <<1, 3, 4>>

C18_StartReplacesState ==
    (last.op = "startNewGame" /\ ~last.raised) =>
        /\ state = GAME_STATES.PLAYING
        /\ currentStepIndex = 0
        /\ selectedIndex = Null
        /\ stats.totalMoves = 0 /\ stats.correctMoves = 0 /\ stats.incorrectMoves = 0
        /\ stats.endTime = Null
        /\ originalNumbers = numbers
        /\ currentAlgorithm # Null
        /\ Get(currentAlgorithm).key \in AlgorithmKeys
        /\ currentAlgorithm = ALGORITHMS(Get(currentAlgorithm).key)
        /\ ~generateStepsForAlgorithm(Get(currentAlgorithm).key, numbers).threw
        /\ stepQueue = generateStepsForAlgorithm(Get(currentAlgorithm).key, numbers).steps
        /\ last.ret.totalSteps = Some(Len(stepQueue))
        /\ (last.args # Null /\ Get(last.args) \in AlgorithmKeys)
             => currentAlgorithm = ALGORITHMS(Get(last.args))

\* C18 witness: startNewGame(), called with no identifier, has just returned
\* with a plan of at least two steps.
C18_Witness ==
    /\ last.op = "startNewGame"
    /\ ~last.raised
    /\ last.args = Null
    /\ state = GAME_STATES.PLAYING
    /\ Len(stepQueue) >= 2
    /\ last.ret.totalSteps = Some(Len(stepQueue))

\* C20: in every reachable state 0 <= currentStepIndex <= length of stepQueue;
\* and within a session (every step that is not a startNewGame or
\* changeAlgorithm call) the cursor stays as it is or grows by exactly 1, and
\* it grows only in a selectElement call that made a correct swap-attempt.
C20_CursorBounded ==
    /\ [](currentStepIndex >= 0 /\ currentStepIndex <= Len(stepQueue))
    /\ [][ last'.op \notin {"startNewGame", "changeAlgorithm"} =>
              \/ currentStepIndex' = currentStepIndex
              \/ /\ currentStepIndex' = currentStepIndex + 1
                 /\ last'.op = "selectElement"
                 /\ last'.ret.correct ]_vars

\* C20 witness: the cursor has reached the plan length of a plan of at least
\* two steps by a correct swap-attempt, after an incorrect attempt that left
\* it where it was.
C20_Witness ==
    /\ last.op = "selectElement"
    /\ last.ret.correct
    /\ Len(stepQueue) >= 2
    /\ currentStepIndex = Len(stepQueue)
    /\ stats.incorrectMoves >= 1

\* The three move counters of the engine.
Counters == <<stats.totalMoves, stats.correctMoves, stats.incorrectMoves>>

\* The three move counters after the step.
CountersNext == <<stats'.totalMoves, stats'.correctMoves, stats'.incorrectMoves>>

\* C21: totalMoves, correctMoves and incorrectMoves are >= 0 in every
\* reachable state and endTime is set exactly in state completed; within a
\* session (every step that is not a startNewGame or changeAlgorithm call) no
\* counter decreases, a counter grows by 1 at most, and the counters change
\* only in a selectElement call that made a swap-attempt.
C21_CountersAndEndTime ==
    /\ [](/\ stats.totalMoves >= 0 /\ stats.correctMoves >= 0 /\ stats.incorrectMoves >= 0
          /\ (stats.endTime # Null <=> state = GAME_STATES.COMPLETED))
    /\ [][ last'.op \notin {"startNewGame", "changeAlgorithm"} =>
              /\ \A c \in 1..3 : CountersNext[c] \in {Counters[c], Counters[c] + 1}
              /\ CountersNext # Counters =>
                    /\ last'.op = "selectElement"
                    /\ last'.ret.indices # <<>>
                    /\ stats'.totalMoves = stats.totalMoves + 1 ]_vars

\* C21 witness: a completed game with its end time set, which counted
\* correct and incorrect swap-attempts.
C21_Witness ==
    /\ state = GAME_STATES.COMPLETED
    /\ stats.endTime # Null
    /\ stats.correctMoves >= 2
    /\ stats.incorrectMoves >= 1
    /\ stats.totalMoves = stats.correctMoves + stats.incorrectMoves
    /\ last.op = "selectElement"

\* C22: in state playing with a position selected, selectElement(index) with
\* a valid index other than the selected one makes the swap-attempt between
\* the selected position and index (the result names that pair in that order
\* and totalMoves grows by 1), and afterwards nothing is selected, whether the
\* attempt was correct, incorrect or completed the game.
C22_SelectionConsumed ==
    (state = GAME_STATES.PLAYING /\ selectedIndex # Null) =>
        \A index \in IndexArgs(numbers) :
            (InRange(numbers, index) /\ index # Get(selectedIndex)) =>
                \A out \in { selectElement(Engine, index) } :
                    /\ out.g.selectedIndex = Null
                    /\ out.ret.indices = <<Get(selectedIndex), index>>
                    /\ out.ret.action = ""
                    /\ out.g.stats.totalMoves = stats.totalMoves + 1
                    /\ out.ret.correct <=>
                         validateMove(ExpectedStep(Engine), Get(selectedIndex), index)
                    /\ out.ret.correct =>
                         out.g.numbers = SwapAt(numbers, Get(selectedIndex), index)
                    /\ ~out.ret.correct => out.g.numbers = numbers

\* C22 witness: a selectElement call has just made an incorrect swap-attempt
\* in a game that had already advanced, and nothing is selected.
C22_Witness ==
    /\ last.op = "selectElement"
    /\ last.ret.indices # <<>>
    /\ ~last.ret.correct
    /\ last.args[1] = last.ret.indices[2]
    /\ state = GAME_STATES.PLAYING
    /\ currentStepIndex >= 1
    /\ selectedIndex = Null

\* C23: the state is never paused; it changes only from idle to playing,
\* from playing to completed (with the cursor at the plan length), or from any
\* state to playing; completed is entered only from playing; and idle is
\* never entered again once it has been left.
C23_StateTransitions ==
    /\ [](state # GAME_STATES.PAUSED)
    /\ [][ state' # state =>
              \/ state' = GAME_STATES.PLAYING
              \/ /\ state = GAME_STATES.PLAYING
                 /\ state' = GAME_STATES.COMPLETED
                 /\ currentStepIndex' = Len(stepQueue') ]_vars
    /\ [][ state # GAME_STATES.IDLE => state' # GAME_STATES.IDLE ]_vars

\* C24: every step of the plan of a session has kind swap and two different
\* positions within the sequence, and while the game is playing the values
\* recorded in the step at the cursor are the values numbers holds at the
\* step's two positions.
C24_StepsMatchSequence ==
    /\ \A k \in 0..(Len(stepQueue) - 1) :
          /\ At(stepQueue, k).type = STEP_TYPES.SWAP
          /\ Len(At(stepQueue, k).indices) = 2
          /\ At(stepQueue, k).indices[1] # At(stepQueue, k).indices[2]
          /\ InRange(numbers, At(stepQueue, k).indices[1])
          /\ InRange(numbers, At(stepQueue, k).indices[2])
    /\ state = GAME_STATES.PLAYING =>
          /\ ExpectedStep(Engine) # Null
          /\ CursorStep.values = << At(numbers, CursorStep.indices[1]),
                                    At(numbers, CursorStep.indices[2]) >>

\* C24 witness: a playing game after a correct and an incorrect attempt,
\* whose sequence differs from the original one, with a step at the cursor.
C24_Witness ==
    /\ state = GAME_STATES.PLAYING
    /\ stats.correctMoves >= 1
    /\ stats.incorrectMoves >= 1
    /\ numbers # originalNumbers
    /\ ExpectedStep(Engine) # Null
    /\ CursorStep.values[1] # CursorStep.values[2]

\* How many positions the element at position i of arr must move left: the
\* number of elements before it that are strictly greater.
LeftGreater(arr, i) == Cardinality({ p \in 0..(i - 1) : At(arr, p) > At(arr, i) })

\* The position pairs of an insertion sort from element i on: for each
\* element in turn, one pair per position it moves, from its place leftwards.
RECURSIVE MovesLeftFrom(_, _)
MovesLeftFrom(arr, i) ==
    IF i >= Len(arr) THEN <<>>
    ELSE [t \in 1..LeftGreater(arr, i) |-> <<i - t, i - t + 1>>] \o MovesLeftFrom(arr, i + 1)

\* C25: every step of a bubble plan and of an insertion plan swaps two
\* adjacent positions (j, j+1) whose recorded left value is strictly greater
\* than the recorded right value, so equal neighbours are never swapped; and
\* an insertion plan is, element by element, exactly k consecutive steps for
\* an element that must move k positions left.
C25_AdjacentSwaps ==
    (PlanReturned /\ genKey \in {"bubble", "insertion"}) =>
        /\ \A k \in 0..(Len(genOut.steps) - 1) :
              /\ At(genOut.steps, k).indices[2] = At(genOut.steps, k).indices[1] + 1
              /\ At(genOut.steps, k).values[1] > At(genOut.steps, k).values[2]
        /\ genKey = "insertion" =>
              /\ Len(genOut.steps) = Len(MovesLeftFrom(genArr, 1))
              /\ \A k \in 1..Len(genOut.steps) :
                    genOut.steps[k].indices = MovesLeftFrom(genArr, 1)[k]

\* C25 witness: the insertion plan of an input that repeats a value and has
\* an element that moves at least two positions left was replayed to its end.
C25_Witness ==
    /\ genPc = "done"
    /\ genKey = "insertion"
    /\ ~Distinct(genArr)
    /\ \E i \in 1..(Len(genArr) - 1) : LeftGreater(genArr, i) >= 2
    /\ Len(genOut.steps) >= 2

\* The step the replay of the returned plan applies next.
ReplayStep == At(genOut.steps, replayPos)

\* C26: the first indices of the steps of a selection plan are boundary
\* positions in 0..n-2 and strictly increasing, so there is at most one step
\* per boundary; and each step (i, m), at the time it is applied, has m > i,
\* position m holds the minimum of the suffix starting at i, no position from
\* i to m-1 holds it (m is the first index that does), so no step is emitted
\* for a boundary whose element already equals the suffix minimum.
C26_SelectionSteps ==
    (PlanReturned /\ genKey = "selection") =>
        /\ \A k \in 0..(Len(genOut.steps) - 1) :
              /\ At(genOut.steps, k).indices[1] >= 0
              /\ At(genOut.steps, k).indices[1] <= Len(genArr) - 2
        /\ \A k \in 0..(Len(genOut.steps) - 2) :
              At(genOut.steps, k).indices[1] < At(genOut.steps, k + 1).indices[1]
        /\ (genPc = "replay" /\ replayPos < Len(genOut.steps)) =>
              /\ ReplayStep.indices[2] > ReplayStep.indices[1]
              /\ ReplayStep.indices[2] < Len(replayArr)
              /\ \A p \in ReplayStep.indices[1]..(Len(replayArr) - 1) :
                    At(replayArr, ReplayStep.indices[2]) <= At(replayArr, p)
              /\ \A p \in ReplayStep.indices[1]..(ReplayStep.indices[2] - 1) :
                    At(replayArr, p) > At(replayArr, ReplayStep.indices[2])

\* C26 witness: a step of a selection plan is about to be applied to an
\* array in which the suffix minimum occurs twice, and the step takes its
\* first occurrence.
C26_Witness ==
    /\ genPc = "replay"
    /\ genKey = "selection"
    /\ replayPos < Len(genOut.steps)
    /\ \E p \in (ReplayStep.indices[2] + 1)..(Len(replayArr) - 1) :
          At(replayArr, p) = At(replayArr, ReplayStep.indices[2])

\* a and b have the same length and hold the same values the same number of
\* times.
IsPermutationOf(a, b) ==
    /\ Len(a) = Len(b)
    /\ \A p \in 1..Len(a) :
          Cardinality({ q \in 1..Len(a) : a[q] = a[p] })
            = Cardinality({ q \in 1..Len(b) : b[q] = a[p] })

\* C27: in every reachable state numbers is a permutation of originalNumbers
\* of the same length; and within a session (every step that is not a
\* startNewGame or changeAlgorithm call) originalNumbers is never changed and
\* numbers is changed only by a selectElement call that made a correct
\* swap-attempt.
C27_OriginalKept ==
    /\ [](IsPermutationOf(numbers, originalNumbers))
    /\ [][ last'.op \notin {"startNewGame", "changeAlgorithm"} =>
              /\ originalNumbers' = originalNumbers
              /\ numbers' # numbers =>
                    /\ last'.op = "selectElement"
                    /\ last'.ret.correct
                    /\ numbers' = SwapAt(numbers, last'.ret.indices[1], last'.ret.indices[2]) ]_vars

\* C27 witness: after correct and incorrect attempts the sequence differs
\* from the original one in every position.
C27_Witness ==
    /\ originalNumbers # <<>>
    /\ stats.correctMoves >= 2
    /\ stats.incorrectMoves >= 1
    /\ \A p \in 1..Len(numbers) : numbers[p] # originalNumbers[p]

\* p is 100 * cursor / total rounded to the nearest integer, a half going up:
\* p - 1/2 <= 100 * cursor / total < p + 1/2.
IsRoundedPercentage(p, cursor, total) ==
    /\ p \in Int
    /\ (2 * p - 1) * total <= 200 * cursor
    /\ 200 * cursor < (2 * p + 1) * total

\* C28: in every reachable state getProgress() returns completed = cursor,
\* total = plan length, remaining = total - cursor >= 0 (so completed +
\* remaining = total), and percentage = round(100 * cursor / total) when
\* total > 0 and 0 when total = 0; the percentage is within 0..100 and is 100
\* when cursor = total > 0.
C28_ProgressValues ==
    \A progress \in { getProgress(Engine) } :
        /\ progress.completed = currentStepIndex
        /\ progress.total = Len(stepQueue)
        /\ progress.remaining = Len(stepQueue) - currentStepIndex
        /\ progress.completed + progress.remaining = progress.total
        /\ progress.remaining >= 0
        /\ Len(stepQueue) > 0
             => IsRoundedPercentage(progress.percentage, currentStepIndex, Len(stepQueue))
        /\ Len(stepQueue) = 0 => progress.percentage = 0
        /\ progress.percentage >= 0 /\ progress.percentage <= 100
        /\ (currentStepIndex = Len(stepQueue) /\ Len(stepQueue) > 0)
             => progress.percentage = 100

\* C28 witness: two of three steps are done, where rounding (67) and cutting
\* (66) differ.
C28_Witness ==
    /\ state = GAME_STATES.PLAYING
    /\ Len(stepQueue) = 3
    /\ currentStepIndex = 2
    /\ getProgress(Engine).percentage = 67
    /\ getProgress(Engine).remaining = 1

\* The messages of the two results attemptSwap returns when there is no step
\* at the cursor.
ExhaustedMessages == {"Array-ul este deja sortat!", "Nu mai sunt mutari necesare."}

\* C29: in every session startNewGame created (state playing or completed)
\* the plan is not empty; while playing the cursor is below the plan length,
\* so there is a step at the cursor and no call takes the branch of
\* attemptSwap for an exhausted plan; and the state is completed exactly when
\* the cursor equals the plan length and that length is positive.
C29_StepWhilePlaying ==
    /\ state \in {GAME_STATES.PLAYING, GAME_STATES.COMPLETED} => Len(stepQueue) > 0
    /\ state = GAME_STATES.PLAYING =>
          /\ currentStepIndex < Len(stepQueue)
          /\ ExpectedStep(Engine) # Null
    /\ state = GAME_STATES.COMPLETED <=>
          (currentStepIndex = Len(stepQueue) /\ Len(stepQueue) > 0)
    /\ last.ret.message \notin ExhaustedMessages
    /\ \A index \in IndexArgs(numbers) :
          selectElement(Engine, index).ret.message \notin ExhaustedMessages

\* C29 witness: a playing game one step before the end of a plan of at least
\* two steps, with a position selected, so that the next call is a
\* swap-attempt.
C29_Witness ==
    /\ state = GAME_STATES.PLAYING
    /\ Len(stepQueue) >= 2
    /\ currentStepIndex = Len(stepQueue) - 1
    /\ selectedIndex # Null
    /\ last.op = "selectElement"
    /\ last.ret.action = "selected"

\* C30: in every reachable state a playing game has a sequence that is not
\* sorted and a completed game has a sorted one, whichever algorithm the plan
\* came from: isSorted() is true exactly when the plan of a session is fully
\* consumed, so checkSolution never finds the sequence sorted while steps
\* remain.
C30_SortedIffConsumed ==
    /\ state = GAME_STATES.PLAYING => ~isSorted(Engine)
    /\ state = GAME_STATES.COMPLETED => isSorted(Engine)
    /\ state \in {GAME_STATES.PLAYING, GAME_STATES.COMPLETED} =>
          (isSorted(Engine) <=> currentStepIndex = Len(stepQueue))

\* C30 witness: a playing selection sort game that has advanced and is one
\* exchange of two positions away from a sorted sequence.
C30_Witness ==
    /\ state = GAME_STATES.PLAYING
    /\ Get(currentAlgorithm).key = "selection"
    /\ currentStepIndex >= 1
    /\ currentStepIndex < Len(stepQueue)
    /\ ~isSorted(Engine)
    /\ \E i, j \in 0..(Len(numbers) - 1) : EveryNonDecreasing(SwapAt(numbers, i, j))

\* C31: in every reachable state correctMoves equals the cursor; so in a
\* completed game correctMoves equals the plan length and incorrectMoves
\* equals totalMoves minus the plan length.
C31_CorrectMovesIsCursor ==
    /\ stats.correctMoves = currentStepIndex
    /\ state = GAME_STATES.COMPLETED =>
          /\ stats.correctMoves = Len(stepQueue)
          /\ stats.incorrectMoves = stats.totalMoves - Len(stepQueue)

\* C31 witness: a game of at least three steps was completed with one
\* incorrect attempt among its moves.
C31_Witness ==
    /\ state = GAME_STATES.COMPLETED
    /\ Len(stepQueue) >= 3
    /\ stats.correctMoves = Len(stepQueue)
    /\ stats.incorrectMoves = 1
    /\ stats.totalMoves = Len(stepQueue) + 1

\* The number of inversions of arr: pairs p < q with arr[p] > arr[q].
Inversions(arr) ==
    Cardinality({ pq \in (1..Len(arr)) \X (1..Len(arr)) :
                    pq[1] < pq[2] /\ arr[pq[1]] > arr[pq[2]] })

\* C32: for every input the bubble plan and the insertion plan have the same
\* length, and that length is the number of inversions of the input.
C32_PlanLengthIsInversions ==
    (PlanReturned /\ genKey \in {"bubble", "insertion"}) =>
        /\ Len(genOut.steps) = Inversions(genArr)
        /\ Len(generateBubbleSortSteps(genArr)) = Len(generateInsertionSortSteps(genArr))

\* C32 witness: the insertion plan of an input of at least three elements
\* that repeats a value and has at least two inversions was replayed to its
\* end, and the bubble plan of the same input is as long.
C32_Witness ==
    /\ genPc = "done"
    /\ genKey = "insertion"
    /\ Len(genArr) >= 3
    /\ ~Distinct(genArr)
    /\ Inversions(genArr) >= 2
    /\ Len(genOut.steps) = Inversions(genArr)
    /\ Len(generateBubbleSortSteps(genArr)) = Len(genOut.steps)

====
